---- MODULE Spec2Model ----
(***************************************************************************)
(* Model of the obsidian-novel-chapter-list plugin (src/src/main.ts,       *)
(* src/src/settings.ts): the chapter panel (NovelChapterView), the plugin  *)
(* settings and the vault's markdown listing.                              *)
(*                                                                         *)
(* Strings are sequences of one-character strings, so that prefix tests,   *)
(* path normalisation, splitting, case folding and collation are computed  *)
(* and not assumed.                                                        *)
(***************************************************************************)
EXTENDS Integers, Sequences, FiniteSets, TLC

(***************************************************************************)
(* Bounds of the model.                                                    *)
(***************************************************************************)
\* largest number of markdown files in the vault
MaxFiles == 3

\* the largest number of novel projects the settings tab is taken to
MaxProjects == 3

(***************************************************************************)
(* Characters and the host's string functions.                             *)
(***************************************************************************)
\* U+00AD SOFT HYPHEN: a character that collation ignores completely
SHY == "~"

LowerLetters == <<"a","b","c","d","e","f","g","h","i","j","k","l","m",
                  "n","o","p","q","r","s","t","u","v","w","x","y","z">>

UpperLetters == <<"A","B","C","D","E","F","G","H","I","J","K","L","M",
                  "N","O","P","Q","R","S","T","U","V","W","X","Y","Z">>

Digits == <<"0","1","2","3","4","5","6","7","8","9">>

IndexIn(seq, c) == CHOOSE i \in 1..Len(seq) : seq[i] = c

IsIn(seq, c) == \E i \in 1..Len(seq) : seq[i] = c

Range(seq) == {seq[i] : i \in 1..Len(seq)}

\* the characters of the model's strings
Alphabet == Range(LowerLetters) \cup Range(UpperLetters) \cup Range(Digits)
            \cup {SHY, " ", ",", ".", "/", "\\"}

LowerTable ==
    [c \in Alphabet |->
        IF IsIn(UpperLetters, c) THEN LowerLetters[IndexIn(UpperLetters, c)] ELSE c]

\* String.prototype.toLowerCase, one character
LowerChar(c) == LowerTable[c]

\* String.prototype.toLowerCase
toLowerCase(s) == [i \in 1..Len(s) |-> LowerChar(s[i])]

\* String.prototype.startsWith
startsWith(s, p) == Len(p) <= Len(s) /\ SubSeq(s, 1, Len(p)) = p

\* String.prototype.endsWith
endsWith(s, p) == Len(p) <= Len(s) /\ SubSeq(s, Len(s) - Len(p) + 1, Len(s)) = p

\* String.prototype.includes
includes(s, sub) == \E i \in 0..(Len(s) - Len(sub)) : SubSeq(s, i + 1, i + Len(sub)) = sub

\* String.prototype.substring(start)
substring(s, start) == SubSeq(s, start + 1, Len(s))

RECURSIVE trimStart(_)
trimStart(s) == IF s # <<>> /\ Head(s) = " " THEN trimStart(Tail(s)) ELSE s

RECURSIVE trimEnd(_)
trimEnd(s) == IF s # <<>> /\ s[Len(s)] = " " THEN trimEnd(SubSeq(s, 1, Len(s) - 1)) ELSE s

\* String.prototype.trim
trim(s) == trimEnd(trimStart(s))

\* String.prototype.split(sep) for a one-character separator: empty pieces are kept
RECURSIVE splitFrom(_, _, _)
splitFrom(s, sep, cur) ==
    IF s = <<>> THEN <<cur>>
    ELSE IF Head(s) = sep THEN <<cur>> \o splitFrom(Tail(s), sep, <<>>)
    ELSE splitFrom(Tail(s), sep, Append(cur, Head(s)))

split(s, sep) == splitFrom(s, sep, <<>>)

\* obsidian normalizePath, step 1: runs of separators become one "/"
RECURSIVE collapseSeparators(_)
collapseSeparators(s) ==
    IF s = <<>> THEN <<>>
    ELSE IF Head(s) \in {"/", "\\"}
         THEN IF Len(s) > 1 /\ s[2] \in {"/", "\\"}
              THEN collapseSeparators(Tail(s))
              ELSE <<"/">> \o collapseSeparators(Tail(s))
         ELSE <<Head(s)>> \o collapseSeparators(Tail(s))

\* obsidian normalizePath, step 2: leading and trailing "/" are removed
stripSeparators(s) ==
    LET a == IF s # <<>> /\ Head(s) = "/" THEN Tail(s) ELSE s
    IN  IF a # <<>> /\ a[Len(a)] = "/" THEN SubSeq(a, 1, Len(a) - 1) ELSE a

\* obsidian normalizePath: collapse separators, strip them at both ends, "" becomes "/"
normalizePath(s) ==
    LET t == stripSeparators(collapseSeparators(s))
    IN  IF t = <<>> THEN <<"/">> ELSE t

(***************************************************************************)
(* String.prototype.localeCompare (ICU root collation, default strength):  *)
(* completely ignorable characters carry no weight, letters compare        *)
(* without case first and lower case before upper case on a tie, and two   *)
(* different strings with the same weights compare equal (0), as do        *)
(* canonically equivalent strings by ECMA-262. SHY stands for such a       *)
(* character without weight.                                               *)
(***************************************************************************)
PrimaryTable ==
    [c \in Alphabet |->
        IF c = SHY THEN 0
        ELSE IF c = " " THEN 1
        ELSE IF c = "," THEN 2
        ELSE IF c = "." THEN 3
        ELSE IF c = "/" THEN 4
        ELSE IF c = "\\" THEN 5
        ELSE IF IsIn(Digits, c) THEN 10 + IndexIn(Digits, c)
        ELSE IF IsIn(LowerLetters, c) THEN 30 + IndexIn(LowerLetters, c)
        ELSE 30 + IndexIn(UpperLetters, c)]

TertiaryTable == [c \in Alphabet |-> IF IsIn(UpperLetters, c) THEN 1 ELSE 0]

\* the primary (letter) weight of a character; 0 when collation ignores it
Primary(c) == PrimaryTable[c]

\* the tertiary (case) weight of a character
Tertiary(c) == TertiaryTable[c]

Weighted(s) == SelectSeq(s, LAMBDA c : Primary(c) # 0)

RECURSIVE compareKeys(_, _)
compareKeys(a, b) ==
    IF a = <<>> /\ b = <<>> THEN 0
    ELSE IF a = <<>> THEN -1
    ELSE IF b = <<>> THEN 1
    ELSE IF Head(a) < Head(b) THEN -1
    ELSE IF Head(a) > Head(b) THEN 1
    ELSE compareKeys(Tail(a), Tail(b))

localeCompare(a, b) ==
    LET wa == Weighted(a)
        wb == Weighted(b)
        p  == compareKeys([i \in 1..Len(wa) |-> Primary(wa[i])],
                          [i \in 1..Len(wb) |-> Primary(wb[i])])
    IN  IF p # 0 THEN p
        ELSE compareKeys([i \in 1..Len(wa) |-> Tertiary(wa[i])],
                         [i \in 1..Len(wb) |-> Tertiary(wb[i])])

(***************************************************************************)
(* Values of the model: identifiers, files, projects.                      *)
(***************************************************************************)
\* null, for selectedNovelProjectId and lastSelectedNovelId
NoId == "null"

MdExt == <<".", "m", "d">>

\* values persisted data can hold where the code expects a string: null and a
\* number; neither is a string of the model
Null == <<"<null>">>

ANumber == <<"<number>">>

\* "Other", the default of otherGroupName
OtherDefault == <<"O", "t", "h", "e", "r">>

\* "To Do, Done, In Progress", the default of propertyOptions
PropertyOptionsDefault ==
    <<"T","o"," ","D","o",","," ","D","o","n","e",","," ","I","n"," ","P","r","o","g","r","e","s","s">>

Done == <<"D", "o", "n", "e">>

ToDo == <<"T", "o", " ", "D", "o">>

\* the filter value that switches the property filter off
All == <<"a", "l", "l">>

\* a TFile of the vault: its path and the frontmatter of its metadata cache,
\* a set of <<key, value>> pairs with distinct keys
TFile(path, frontmatter) == [path |-> path, frontmatter |-> frontmatter]

\* TFile.name: the last segment of the path
name(file) == LET parts == split(file.path, "/") IN parts[Len(parts)]

\* TFile.basename: the name without its extension
basename(file) ==
    LET n == name(file)
        dots == {i \in 1..Len(n) : n[i] = "."}
    IN  IF dots = {} THEN n
        ELSE SubSeq(n, 1, (CHOOSE i \in dots : \A j \in dots : j <= i) - 1)

\* fileCache?.frontmatter?.[key] === value
frontmatterEqualsMutFixedKey(file, key, value) ==
    \E kv \in file.frontmatter : kv[1] = "status" /\ kv[2] = value

frontmatterEquals(file, key, value) ==
    \E kv \in file.frontmatter : kv[1] = key /\ kv[2] = value

NovelProject(id, pname, path) == [id |-> id, name |-> pname, path |-> path]

\* novelProjects.find((p) => p.id === id)
findProject(projects, id) ==
    LET hits == {i \in 1..Len(projects) : projects[i].id = id}
    IN  IF hits = {} THEN <<>>
        ELSE <<projects[CHOOSE i \in hits : \A j \in hits : i <= j]>>

(***************************************************************************)
(* isFileInFolder and the derivation of the chapter table.                 *)
(***************************************************************************)
isFileInFolderMutSibling(file, folderPath) ==
    IF folderPath = <<>> \/ trim(folderPath) = <<>> THEN FALSE
    ELSE startsWith(normalizePath(file.path), normalizePath(folderPath))

isFileInFolder(file, folderPath) ==
    IF folderPath = <<>> \/ trim(folderPath) = <<>> THEN FALSE
    ELSE LET normalizedFilePath == normalizePath(file.path)
             n == normalizePath(folderPath)
             normalizedFolderPath == IF endsWith(n, <<"/">>) THEN n ELSE n \o <<"/">>
         IN  startsWith(normalizedFilePath, normalizedFolderPath)

\* Array.prototype.sort((a, b) => a.path.localeCompare(b.path)): stable
RECURSIVE insertByPath(_, _)
insertByPath(sorted, file) ==
    IF sorted = <<>> THEN <<file>>
    ELSE IF localeCompare(Head(sorted).path, file.path) > 0
         THEN <<file>> \o sorted
         ELSE <<Head(sorted)>> \o insertByPath(Tail(sorted), file)

RECURSIVE sortByPathFrom(_, _)
sortByPathFrom(files, sorted) ==
    IF files = <<>> THEN sorted
    ELSE sortByPathFrom(Tail(files), insertByPath(sorted, Head(files)))

sortByPath(files) == sortByPathFrom(files, <<>>)

\* the comparator of sortedGroupNames
compareGroupNamesMutPlain(a, b, OTHER_GROUP_NAME) == localeCompare(a, b)

compareGroupNames(a, b, OTHER_GROUP_NAME) ==
    IF a = OTHER_GROUP_NAME THEN 1
    ELSE IF b = OTHER_GROUP_NAME THEN -1
    ELSE localeCompare(a, b)

RECURSIVE insertGroupName(_, _, _)
insertGroupName(sorted, g, other) ==
    IF sorted = <<>> THEN <<g>>
    ELSE IF compareGroupNames(Head(sorted), g, other) > 0
         THEN <<g>> \o sorted
         ELSE <<Head(sorted)>> \o insertGroupName(Tail(sorted), g, other)

RECURSIVE sortGroupNamesFrom(_, _, _)
sortGroupNamesFrom(names, sorted, other) ==
    IF names = <<>> THEN sorted
    ELSE sortGroupNamesFrom(Tail(names), insertGroupName(sorted, Head(names), other), other)

\* Array.from(groupedChapters.keys()).sort(...)
sortGroupNames(names, other) == sortGroupNamesFrom(names, <<>>, other)

\* the group of one chapter file: the first part of its path under the folder
groupNameOfMutAnyPart(file, normalizedChaptersFolderPath, OTHER_GROUP_NAME) ==
    LET folderPathWithSlash ==
            IF endsWith(normalizedChaptersFolderPath, <<"/">>)
            THEN normalizedChaptersFolderPath
            ELSE normalizedChaptersFolderPath \o <<"/">>
        relativePath == substring(normalizePath(file.path), Len(folderPathWithSlash))
        pathParts == split(relativePath, "/")
    IN  IF Len(pathParts) > 0 THEN pathParts[1] ELSE OTHER_GROUP_NAME

groupNameOf(file, normalizedChaptersFolderPath, OTHER_GROUP_NAME) ==
    LET folderPathWithSlash ==
            IF endsWith(normalizedChaptersFolderPath, <<"/">>)
            THEN normalizedChaptersFolderPath
            ELSE normalizedChaptersFolderPath \o <<"/">>
        relativePath == substring(normalizePath(file.path), Len(folderPathWithSlash))
        pathParts == split(relativePath, "/")
    IN  IF Len(pathParts) > 1 THEN pathParts[1] ELSE OTHER_GROUP_NAME

\* groupedChapters: the Map of group name to files, in insertion order
RECURSIVE groupChapters(_, _, _, _)
groupChapters(files, folder, other, grouped) ==
    IF files = <<>> THEN grouped
    ELSE LET g == groupNameOf(Head(files), folder, other)
             hit == {i \in 1..Len(grouped) : grouped[i].name = g}
             next == IF hit = {}
                     THEN Append(grouped, [name |-> g, members |-> <<Head(files)>>])
                     ELSE [i \in 1..Len(grouped) |->
                              IF i \in hit
                              THEN [name |-> g, members |-> Append(grouped[i].members, Head(files))]
                              ELSE grouped[i]]
         IN  groupChapters(Tail(files), folder, other, next)

\* propertyOptions.split(",").map(trim).filter(nonempty)
optionsArray(propertyOptions) ==
    LET parts == split(propertyOptions, ",")
    IN  SelectSeq([i \in 1..Len(parts) |-> trim(parts[i])], LAMBDA o : Len(o) > 0)

\* the test "no chapters folder path is configured" of renderChapterTable
noFolderPathConfiguredMutNoTrim(chaptersFolderPath) == chaptersFolderPath = <<>>

noFolderPathConfigured(chaptersFolderPath) ==
    chaptersFolderPath = <<>> \/ trim(chaptersFolderPath) = <<>>

\* the search filter: basename.toLowerCase().includes(searchTerm.toLowerCase())
matchesSearchMutCaseOfTerm(file, searchTerm) ==
    includes(toLowerCase(basename(file)), searchTerm)

matchesSearch(file, searchTerm) ==
    includes(toLowerCase(basename(file)), toLowerCase(searchTerm))

\* the count of the table header: the "Other" group is left out when configured
totalCountOfMutAlways(chapterFiles, grouped, OTHER_GROUP_NAME, excludeOtherFromCount) ==
    LET others == {i \in 1..Len(grouped) : grouped[i].name = OTHER_GROUP_NAME}
    IN  IF others # {}
        THEN Len(chapterFiles) - Len(grouped[CHOOSE i \in others : TRUE].members)
        ELSE Len(chapterFiles)

totalCountOf(chapterFiles, grouped, OTHER_GROUP_NAME, excludeOtherFromCount) ==
    LET others == {i \in 1..Len(grouped) : grouped[i].name = OTHER_GROUP_NAME}
    IN  IF excludeOtherFromCount /\ others # {}
        THEN Len(chapterFiles) - Len(grouped[CHOOSE i \in others : TRUE].members)
        ELSE Len(chapterFiles)

\* what the table container holds when no table is drawn. Besides the rows, the
\* container holds what group header clicks have left: the headers with the class
\* "collapsed", the chapter rows with display "none", and the header clicked last
NoTable(outcome) ==
    [outcome |-> outcome, groups |-> <<>>, totalCount |-> 0,
     collapsed |-> {}, hidden |-> {}, clicked |-> <<>>]

\* the property filter of renderChapterTable
applyPropertyFilter(inFolder, key, filterValue) ==
    IF filterValue # All
    THEN SelectSeq(inFolder, LAMBDA f : frontmatterEquals(f, key, filterValue))
    ELSE inFolder

\* the search term filter of renderChapterTable
applySearchFilter(filtered, searchTerm) ==
    IF searchTerm # <<>>
    THEN SelectSeq(filtered, LAMBDA f : matchesSearch(f, searchTerm))
    ELSE filtered

\* groupedChapters.get(groupName)
membersOfGroup(grouped, g) ==
    grouped[CHOOSE i \in 1..Len(grouped) : grouped[i].name = g].members

\* the rows of the table body: the groups in the order of sortedGroupNames, each
\* with its files sorted by path
orderedGroups(sortedGroupNames, grouped) ==
    [i \in 1..Len(sortedGroupNames) |->
        [name |-> sortedGroupNames[i],
         members |-> sortByPath(membersOfGroup(grouped, sortedGroupNames[i]))]]

\* the table drawn for a non-empty list of chapter files
tableOfGroups(grouped, chapterFiles, OTHER_GROUP_NAME, excludeOtherFromCount) ==
    [outcome |-> "OK",
     groups |-> orderedGroups(
                    sortGroupNames([i \in 1..Len(grouped) |-> grouped[i].name], OTHER_GROUP_NAME),
                    grouped),
     totalCount |-> totalCountOf(chapterFiles, grouped, OTHER_GROUP_NAME, excludeOtherFromCount),
     collapsed |-> {}, hidden |-> {}, clicked |-> <<>>]

\* renderChapterTable from the filtered chapter files on
tableOfChapterFiles(chapterFiles, normalizedChaptersFolderPath, OTHER_GROUP_NAME, excl) ==
    IF Len(chapterFiles) = 0 THEN NoTable("EMPTY")
    ELSE tableOfGroups(
             groupChapters(chapterFiles, normalizedChaptersFolderPath, OTHER_GROUP_NAME, <<>>),
             chapterFiles, OTHER_GROUP_NAME, excl)

\* renderChapterTable for a project with a folder path
tableOfFolder(files, settings, normalizedChaptersFolderPath, filterValue, searchTerm) ==
    tableOfChapterFiles(
        applySearchFilter(
            applyPropertyFilter(
                SelectSeq(files, LAMBDA f : isFileInFolder(f, normalizedChaptersFolderPath)),
                settings.propertyNameToChange, filterValue),
            searchTerm),
        normalizedChaptersFolderPath,
        IF settings.otherGroupName \notin {<<>>, Null} THEN settings.otherGroupName
        ELSE OtherDefault,
        settings.excludeOtherFromCount)

\* the table header: propertyColumnHeader.trim() throws a TypeError unless the
\* header is a string; it is evaluated when the property column is drawn
tableWithHeader(settings, drawn) ==
    IF /\ drawn.outcome = "OK"
       /\ settings.propertyNameToChange # ""
       /\ optionsArray(settings.propertyOptions) # <<>>
       /\ settings.propertyColumnHeader \in {Null, ANumber}
    THEN NoTable("TYPE_ERROR")
    ELSE drawn

\* the table for the project found under the selected id; propertyOptions.split
\* throws a TypeError unless the options are a string
tableOfProject(files, settings, found, filterValue, searchTerm) ==
    IF found = <<>> THEN NoTable("PROJECT_NOT_FOUND")
    ELSE IF settings.propertyOptions \in {Null, ANumber} THEN NoTable("TYPE_ERROR")
    ELSE IF noFolderPathConfigured(found[1].path) THEN NoTable("NO_PATH_CONFIGURED")
    ELSE tableWithHeader(
             settings,
             tableOfFolder(files, settings, normalizePath(found[1].path), filterValue, searchTerm))

\* NovelChapterView.renderChapterTable: the content of the table container
renderChapterTable(files, settings, selectedId, filterValue, searchTerm) ==
    IF selectedId = NoId THEN NoTable("BLANK")
    ELSE tableOfProject(files, settings, findProject(settings.novelProjects, selectedId),
                        filterValue, searchTerm)

(***************************************************************************)
(* The inputs the model draws from.                                        *)
(***************************************************************************)
FolderNC == <<"N", "/", "C">>

MdPath(folder, base) == folder \o <<"/">> \o base \o MdExt

\* the markdown files that can exist in the vault
Catalogue ==
    { TFile(MdPath(FolderNC, <<"c", "1">>), {<<"status", ToDo>>}),
      TFile(MdPath(FolderNC, <<"c", "2">>), {<<"status", Done>>}),
      TFile(MdPath(FolderNC \o <<"/", "A">>, <<"c", "3">>), {}),
      TFile(MdPath(<<"N", "/", "C", "2">>, <<"x">>), {<<"status", Done>>}),
      TFile(MdPath(FolderNC, <<"c", SHY, "1">>), {<<"status", <<"d", "o", "n", "e">>>>}),
      TFile(MdPath(FolderNC \o <<"/", "z">>, <<"C", "1">>), {<<"stage", Done>>}) }

\* what the user can type into a project's folder path field
ProjectPathInputs == { <<" ">>, <<"/", "N", "/", "/", "C", "/">> }

\* the folder paths persisted data can hold
PersistedPaths == { <<" ">>, <<"/", "N", "/", "/", "C", "/">> }

\* what the user can type into the name of the "Other" group
OtherGroupNameInputs == { <<>>, <<"A">> }

PropertyNames == { "status", "stage" }

FilterInputs == { All, Done }

SearchInputs == { <<>>, <<"C", "1">> }

SeqsUpTo(S, n) == UNION { [1..k -> S] : k \in 0..n }

\* the listings getMarkdownFiles can return: files with distinct paths
VaultListings ==
    { l \in SeqsUpTo(Catalogue, MaxFiles) :
        \A i, j \in 1..Len(l) : i # j => l[i].path # l[j].path }

(***************************************************************************)
(* State.                                                                  *)
(***************************************************************************)
VARIABLES
    vault,                  \* app.vault.getMarkdownFiles(), in the host's order
    settings,               \* plugin.settings
    selectedNovelProjectId, \* NovelChapterView.selectedNovelProjectId
    filterValue,            \* NovelChapterView.filterValue
    searchTerm,             \* NovelChapterView.searchTerm
    table,                  \* the content of NovelChapterView.tableContainer, rows and display
    derivedFrom,            \* what the last renderChapterTable read
    activeFile,             \* app.workspace.getActiveFile(): <<>> or <<file>>
    opened,                 \* the path last given to workspace.openLinkText, or <<>>
    notice,                 \* the text of the last Notice, or ""
    lastNav,                \* the navigation control used last and the file it started from
    data,                   \* the plugin's data.json, what loadData returns
    phase,                  \* "unloaded", "loaded" (onload has run) or "open" (the panel exists)
    uncaught,               \* the error that left the last handler uncaught, or ""
    fileOp,                 \* the last chapter operation: its input, its host call, what failed
    modal,                  \* the confirmation dialog: the file it asks about, the button pressed
    settingsTab,            \* the project rows of the settings tab, and the remove button clicked last
    lagging,                \* metadata cache entries not yet re-indexed: path and old frontmatter
    tasks                   \* the handlers suspended at an await, by the await they wait at

navVars == <<activeFile, opened, notice, lastNav>>

\* the state outside the panel and the settings
fileVars == <<uncaught, fileOp, modal, settingsTab>>

extVars == <<navVars, phase, fileVars, lagging, tasks>>

vars == <<vault, settings, selectedNovelProjectId, filterValue, searchTerm, table, derivedFrom,
          data, extVars>>

viewVars == <<selectedNovelProjectId, filterValue, searchTerm, table, derivedFrom>>

getProjectChaptersMutDisplayed(files, projectPath) ==
    IF projectPath = <<>> \/ trim(projectPath) = <<>> THEN <<>>
    ELSE sortByPath(SelectSeq(files, LAMBDA f :
             /\ isFileInFolder(f, projectPath)
             /\ matchesSearch(f, searchTerm)
             /\ filterValue = All \/ frontmatterEquals(f, settings.propertyNameToChange, filterValue)))

\* NovelChapterPlugin.getProjectChapters: the navigation sequence of a project
getProjectChapters(files, projectPath) ==
    IF projectPath = <<>> \/ trim(projectPath) = <<>> THEN <<>>
    ELSE sortByPath(SelectSeq(files, LAMBDA f : isFileInFolder(f, projectPath)))

\* the selection renderControls leaves behind
renderControlsSelection(projects, selected) ==
    IF Len(projects) = 0 THEN NoId
    ELSE IF selected # NoId /\ findProject(projects, selected) # <<>> THEN selected
    ELSE projects[1].id

updateViewSelectionMutKeeps(s, selected, settingsHaveChanged) == selected

\* the selection updateView leaves behind, after renderControls when settings changed
updateViewSelection(s, selected, settingsHaveChanged) ==
    LET sel == IF settingsHaveChanged
               THEN renderControlsSelection(s.novelProjects, selected)
               ELSE selected
    IN  IF sel = NoId \/ findProject(s.novelProjects, sel) = <<>>
        THEN IF s.lastSelectedNovelId # NoId
                /\ findProject(s.novelProjects, s.lastSelectedNovelId) # <<>>
             THEN s.lastSelectedNovelId
             ELSE IF Len(s.novelProjects) > 0 THEN s.novelProjects[1].id
             ELSE NoId
        ELSE sel

\* what renderChapterTable reads: the listing is fetched only once the selected
\* project is known to have a folder path
inputsRead(files, s, selected, fv, st) ==
    LET found == findProject(s.novelProjects, selected)
        listed == selected # NoId /\ found # <<>>
                  /\ ~noFolderPathConfigured(found[1].path)
    IN  [files |-> IF listed THEN files ELSE <<>>, settings |-> s, selectedId |-> selected,
         filterValue |-> fv, searchTerm |-> st]

tableContainerEmptyMutKeeps(container) == container

\* this.tableContainer.empty(), the first statement of renderChapterTable
tableContainerEmpty(container) == NoTable("BLANK")

\* createEl / setText on the table container: rows are appended to those it holds
drawInto(container, drawn) ==
    [outcome |-> drawn.outcome,
     groups |-> container.groups \o drawn.groups,
     totalCount |-> drawn.totalCount,
     collapsed |-> container.collapsed \cup drawn.collapsed,
     hidden |-> container.hidden \cup drawn.hidden,
     clicked |-> drawn.clicked]

\* metadataCache.getFileCache for the files of getMarkdownFiles: a file whose
\* entry has not been re-indexed yet is read with the frontmatter of the entry
getFileCache(files, stale) ==
    [i \in 1..Len(files) |->
        IF \E e \in stale : e.path = files[i].path
        THEN CHOOSE e \in stale : e.path = files[i].path
        ELSE files[i]]

\* renderChapterTable as a step: the container is cleared and the table is
\* rebuilt from the current state, with no await in between
RenderTable(files, s, selected, fv, st) ==
    /\ table' = drawInto(tableContainerEmpty(table), renderChapterTable(files, s, selected, fv, st))
    /\ derivedFrom' = inputsRead(files, s, selected, fv, st)

\* NovelChapterView.updateView; with settingsHaveChanged, renderControls runs
\* first, and its propertyOptions.split throws a TypeError unless the options
\* are a string: the selection is made, the table is left as it was
UpdateView(files, s, settingsHaveChanged) ==
    IF settingsHaveChanged /\ Len(s.novelProjects) > 0 /\ s.propertyOptions \in {Null, ANumber}
    THEN /\ selectedNovelProjectId' =
                renderControlsSelection(s.novelProjects, selectedNovelProjectId)
         /\ table' = [table EXCEPT !.outcome = "TYPE_ERROR"]
         /\ UNCHANGED derivedFrom
    ELSE /\ selectedNovelProjectId' =
                updateViewSelection(s, selectedNovelProjectId, settingsHaveChanged)
         /\ RenderTable(files, s, selectedNovelProjectId', filterValue, searchTerm)

saveDataMutBeforeChange(s) == settings

\* Plugin.saveData(this.settings): the record written to data.json
saveData(s) == s

\* NovelChapterPlugin.saveSettings: saveData, then refreshNovelChapterView(true),
\* which reaches the panel if there is one
SaveSettings(s) ==
    /\ settings' = s
    /\ data' = saveData(s)
    /\ IF phase = "open" THEN UpdateView(vault, s, TRUE) ELSE UNCHANGED viewVars
    /\ UNCHANGED <<vault, filterValue, searchTerm, extVars>>

\* the test of handleFileChange: the file lies in the folder of some project
isRelevantChange(s, path) ==
    \E i \in 1..Len(s.novelProjects) :
        /\ s.novelProjects[i].path # <<>>
        /\ startsWith(normalizePath(path), normalizePath(s.novelProjects[i].path) \o <<"/">>)

\* NovelChapterPlugin.handleFileChange for a create, modify or delete event of a
\* markdown file. The handler pauses (sleep(150)) between its test and the
\* refresh; here the two are one step, taken with the change of the vault.
HandleFileChange(files, path) ==
    IF phase = "open" /\ isRelevantChange(settings, path)
    THEN UpdateView(files, settings, FALSE)
         /\ UNCHANGED <<settings, filterValue, searchTerm, data, extVars>>
    ELSE UNCHANGED <<settings, viewVars, data, extVars>>

(***************************************************************************)
(* Init: the plugin has loaded its settings and the panel has been opened. *)
(***************************************************************************)
\* no file is active, no notice has been shown, no navigation control used, no
\* chapter operation has run, the settings tab is not displayed, the metadata cache
\* is up to date and no handler is suspended
Idle ==
    /\ activeFile = <<>>
    /\ opened = <<>>
    /\ notice = ""
    /\ lastNav = [control |-> "none", from |-> <<>>, listed |-> FALSE]
    /\ uncaught = ""
    /\ fileOp = [op |-> "none", failed |-> "none", file |-> <<>>, input |-> <<>>,
                 dest |-> <<>>, call |-> "none", target |-> <<>>]
    /\ modal = [file |-> <<>>, pressed |-> "none"]
    /\ settingsTab = [rows |-> <<>>, clicked |-> NoId, removed |-> <<>>]
    /\ lagging = {}
    /\ tasks = [timers |-> 0, saves |-> 0, resumes |-> 0]

InitialSettings ==
    { [novelProjects |-> <<NovelProject("p1", "My First Novel", path)>>,
       propertyNameToChange |-> prop,
       propertyColumnHeader |-> <<>>,
       chapterTemplatePath |-> <<>>,
       propertyOptions |-> PropertyOptionsDefault,
       otherGroupName |-> other,
       excludeOtherFromCount |-> excl,
       lastSelectedNovelId |-> NoId]
      : path \in PersistedPaths, prop \in PropertyNames,
        other \in {OtherDefault}, excl \in BOOLEAN }

Init ==
    /\ vault \in VaultListings
    /\ settings \in InitialSettings
    /\ selectedNovelProjectId = updateViewSelection(settings, NoId, TRUE)
    /\ filterValue = All
    /\ searchTerm = <<>>
    /\ table = renderChapterTable(vault, settings, selectedNovelProjectId, filterValue, searchTerm)
    /\ derivedFrom = inputsRead(vault, settings, selectedNovelProjectId, filterValue, searchTerm)
    /\ Idle
    /\ data = settings
    /\ phase = "open"

(***************************************************************************)
(* Actions.                                                                *)
(***************************************************************************)
\* the vault gains a markdown file; the "create" event reaches handleFileChange
VaultCreate ==
    \E f \in Catalogue :
        /\ Len(vault) < MaxFiles
        /\ \A i \in 1..Len(vault) : vault[i].path # f.path
        /\ vault' = Append(vault, f)
        /\ HandleFileChange(vault', f.path)

\* the vault loses a markdown file; the "delete" event reaches handleFileChange
VaultDelete ==
    \E i \in 1..Len(vault) :
        /\ vault' = SubSeq(vault, 1, i - 1) \o SubSeq(vault, i + 1, Len(vault))
        /\ HandleFileChange(vault', vault[i].path)

\* settings tab, "Target Property Name"
SetPropertyNameToChange ==
    \E value \in PropertyNames :
        SaveSettings([settings EXCEPT !.propertyNameToChange = value])

\* settings tab, 'Name for "Other" group'
SetOtherGroupName ==
    \E value \in OtherGroupNameInputs :
        SaveSettings([settings EXCEPT !.otherGroupName =
                          IF value # <<>> THEN value ELSE OtherDefault])

\* settings tab, 'Exclude "Other" group from total count'
SetExcludeOtherFromCount ==
    \E value \in BOOLEAN :
        SaveSettings([settings EXCEPT !.excludeOtherFromCount = value])

\* settings tab, the folder path of a project
SetProjectPath ==
    \E i \in 1..Len(settings.novelProjects), value \in ProjectPathInputs :
        SaveSettings([settings EXCEPT !.novelProjects[i].path = trim(value)])

\* panel, the search input
SetSearchTerm ==
    \E value \in SearchInputs :
        /\ phase = "open"
        /\ searchTerm' = value
        /\ RenderTable(getFileCache(vault, lagging), settings, selectedNovelProjectId,
                       filterValue, value)
        /\ UNCHANGED <<vault, settings, selectedNovelProjectId, filterValue, data, extVars>>

\* panel, the property filter dropdown (drawn when there are options)
SetFilterValue ==
    \E value \in FilterInputs :
        /\ phase = "open"
        /\ settings.propertyOptions \notin {Null, ANumber}
        /\ value = All \/ IsIn(optionsArray(settings.propertyOptions), value)
        /\ optionsArray(settings.propertyOptions) # <<>>
        /\ filterValue' = value
        /\ RenderTable(getFileCache(vault, lagging), settings, selectedNovelProjectId,
                       value, searchTerm)
        /\ UNCHANGED <<vault, settings, selectedNovelProjectId, searchTerm, data, extVars>>

Next ==
    \/ VaultCreate
    \/ VaultDelete
    \/ SetPropertyNameToChange
    \/ SetOtherGroupName
    \/ SetExcludeOtherFromCount
    \/ SetProjectPath
    \/ SetSearchTerm
    \/ SetFilterValue

Spec == Init /\ [][Next]_vars

(***************************************************************************)
(* The derived chapter list, read off the table and the inputs of its      *)
(* derivation.                                                             *)
(***************************************************************************)
DerivedProject == findProject(derivedFrom.settings.novelProjects, derivedFrom.selectedId)

HasProject == derivedFrom.selectedId # NoId /\ DerivedProject # <<>>

DerivedRoot == DerivedProject[1].path

\* a folder path is configured: not empty and not only white space
PathConfigured == HasProject /\ \E i \in 1..Len(DerivedRoot) : DerivedRoot[i] # " "

\* the documents the derivation was given
Available == Range(derivedFrom.files)

\* the documents the table lists
Listed == UNION { Range(table.groups[i].members) : i \in 1..Len(table.groups) }

\* the containment predicate: the normalized path starts with the root and "/"
InsideRoot(f) ==
    /\ PathConfigured
    /\ startsWith(normalizePath(f.path), normalizePath(DerivedRoot) \o <<"/">>)

\* the frontmatter holds exactly this value under this key
HasValue(f, key, value) == {kv[2] : kv \in {x \in f.frontmatter : x[1] = key}} = {value}

ExcludedByFilter(f) ==
    /\ derivedFrom.filterValue # All
    /\ ~HasValue(f, derivedFrom.settings.propertyNameToChange, derivedFrom.filterValue)

SameLetter(x, y) ==
    \/ x = y
    \/ \E n \in 1..Len(LowerLetters) : {x, y} = {LowerLetters[n], UpperLetters[n]}

ContainsIgnoringCase(text, term) ==
    \E i \in 0..(Len(text) - Len(term)) : \A k \in 1..Len(term) : SameLetter(text[i + k], term[k])

ExcludedBySearch(f) ==
    /\ derivedFrom.searchTerm # <<>>
    /\ ~ContainsIgnoringCase(basename(f), derivedFrom.searchTerm)

\* the documents that survive containment, property filter and search
Survivors ==
    {f \in Available : InsideRoot(f) /\ ~ExcludedByFilter(f) /\ ~ExcludedBySearch(f)}

\* the name of the "Other" group in force
OtherName ==
    IF derivedFrom.settings.otherGroupName = <<>> THEN OtherDefault
    ELSE derivedFrom.settings.otherGroupName

\* the segments of a document's path below the project root
RelativeSegments(f) ==
    LET segs == split(normalizePath(f.path), "/")
        root == split(normalizePath(DerivedRoot), "/")
    IN  SubSeq(segs, Len(root) + 1, Len(segs))

RECURSIVE SumOfSizes(_)
SumOfSizes(groups) ==
    IF groups = <<>> THEN 0 ELSE Len(Head(groups).members) + SumOfSizes(Tail(groups))

\* the size of the group with this name, 0 when there is none
SizeOfGroup(groups, g) ==
    SumOfSizes(SelectSeq(groups, LAMBDA grp : grp.name = g))

(***************************************************************************)
(* Claims.                                                                 *)
(***************************************************************************)

\* C1: the chapter list holds only documents whose normalized path starts with
\* the (normalized) project root followed by "/", and holds every such document
\* that the property filter and the search term do not exclude; a document of a
\* sibling folder that shares the root as a string prefix is never listed.
C1_Containment ==
    /\ \A f \in Listed : InsideRoot(f)
    /\ \A f \in Available :
          InsideRoot(f) /\ ~ExcludedByFilter(f) /\ ~ExcludedBySearch(f) => f \in Listed

\* a sibling folder's document was in the listing and is not in the table
C1_Witness ==
    /\ table.outcome = "OK"
    /\ \E f \in Available :
          /\ startsWith(normalizePath(f.path), normalizePath(DerivedRoot))
          /\ ~InsideRoot(f)
          /\ f \notin Listed

\* C2: the "Other" group is the last group whenever it is present, and the
\* groups before it are in ascending order of name.
C2_OtherLast ==
    LET g == table.groups IN
    /\ \A i \in 1..Len(g) : g[i].name = OtherName => i = Len(g)
    /\ \A i, j \in 1..Len(g) :
          i < j /\ g[i].name # OtherName /\ g[j].name # OtherName
             => localeCompare(g[i].name, g[j].name) <= 0 /\ g[i].name # g[j].name

\* "Other" is last although a group before it sorts after it by name
C2_Witness ==
    LET g == table.groups IN
    /\ Len(g) >= 3
    /\ g[Len(g)].name = OtherName
    /\ \E i \in 1..(Len(g) - 1) : localeCompare(g[i].name, OtherName) > 0
    /\ \E i \in 1..(Len(g) - 1) : localeCompare(g[i].name, OtherName) < 0

\* C3: within each group the members are non-decreasing by path under
\* localeCompare, and the table is the same for every order in which the host
\* lists the same documents.
C3_OrderIndependent ==
    LET files == derivedFrom.files IN
    /\ \A i \in 1..Len(table.groups) :
          LET m == table.groups[i].members IN
          \A j, k \in 1..Len(m) : j < k => localeCompare(m[j].path, m[k].path) <= 0
    /\ \A p \in Permutations(1..Len(files)) :
          renderChapterTable([i \in 1..Len(files) |-> files[p[i]]], derivedFrom.settings,
                             derivedFrom.selectedId, derivedFrom.filterValue,
                             derivedFrom.searchTerm) = table

\* C4: the count of the header is the sum of the group sizes, less the size of
\* the "Other" group when excludeOtherFromCount is set; the setting does not
\* change the groups.
C4_TotalCount ==
    /\ table.outcome = "OK" =>
          table.totalCount =
             SumOfSizes(table.groups)
             - (IF derivedFrom.settings.excludeOtherFromCount
                THEN SizeOfGroup(table.groups, OtherName) ELSE 0)
    /\ renderChapterTable(derivedFrom.files,
                          [derivedFrom.settings EXCEPT !.excludeOtherFromCount = ~@],
                          derivedFrom.selectedId, derivedFrom.filterValue,
                          derivedFrom.searchTerm).groups = table.groups

\* the "Other" group is left out of a count that other groups contribute to
C4_Witness ==
    /\ table.outcome = "OK"
    /\ derivedFrom.settings.excludeOtherFromCount
    /\ SizeOfGroup(table.groups, OtherName) > 0
    /\ table.totalCount > 0
    /\ table.totalCount = SumOfSizes(table.groups) - SizeOfGroup(table.groups, OtherName)

\* the scenario of C5: root N/C with c1.md and c2.md in it and A/c3.md below it
ScenarioC1 == TFile(MdPath(FolderNC, <<"c", "1">>), {<<"status", ToDo>>})

ScenarioC2 == TFile(MdPath(FolderNC, <<"c", "2">>), {<<"status", Done>>})

ScenarioC3 == TFile(MdPath(FolderNC \o <<"/", "A">>, <<"c", "3">>), {})

ScenarioInputs ==
    /\ PathConfigured
    /\ normalizePath(DerivedRoot) = FolderNC
    /\ Available = {ScenarioC1, ScenarioC2, ScenarioC3}
    /\ derivedFrom.filterValue = All
    /\ derivedFrom.searchTerm = <<>>
    /\ OtherName = OtherDefault

ScenarioGroups ==
    << [name |-> <<"A">>, members |-> <<ScenarioC3>>],
       [name |-> OtherDefault, members |-> <<ScenarioC1, ScenarioC2>>] >>

\* C5: every surviving document is in exactly one group, named by the first
\* segment of its path below the root when that path has more than one segment
\* and by the "Other" name otherwise; the scenario yields [A: [c3], Other: [c1, c2]]
\* and the total 3.
C5_Grouping ==
    /\ table.outcome = "OK" =>
          /\ Listed = Survivors
          /\ \A f \in Survivors :
                LET places == {<<i, j>> \in (1..Len(table.groups)) \X (1..MaxFiles + 1) :
                                  /\ j <= Len(table.groups[i].members)
                                  /\ table.groups[i].members[j] = f}
                    rel == RelativeSegments(f)
                IN  /\ Cardinality(places) = 1
                    /\ \A pl \in places :
                          table.groups[pl[1]].name =
                             IF Len(rel) > 1 THEN rel[1] ELSE OtherName
    /\ ScenarioInputs =>
          /\ table.groups = ScenarioGroups
          /\ ~derivedFrom.settings.excludeOtherFromCount => table.totalCount = 3

\* the scenario has been derived
C5_Witness ==
    /\ ScenarioInputs
    /\ ~derivedFrom.settings.excludeOtherFromCount
    /\ table.outcome = "OK"
    /\ table.groups = ScenarioGroups
    /\ table.totalCount = 3

\* C6: every member of the "Other" group lies directly in the project root.
C6_OtherReserved ==
    \A i \in 1..Len(table.groups) :
        table.groups[i].name = OtherName =>
            \A f \in Range(table.groups[i].members) : Len(RelativeSegments(f)) = 1

\* C7: with a filter value other than "all" the list holds exactly the contained
\* documents whose frontmatter has the filter value under the configured
\* property (and that the search keeps); a document without the property never
\* matches; with "all" the property filter removes nothing.
C7_PropertyFilter ==
    LET key == derivedFrom.settings.propertyNameToChange
        kept == {f \in Available : InsideRoot(f) /\ ~ExcludedBySearch(f)}
    IN  /\ derivedFrom.filterValue # All =>
              Listed = {f \in kept : HasValue(f, key, derivedFrom.filterValue)}
        /\ derivedFrom.filterValue = All => Listed = kept

\* the filter kept a document and removed one without the property and one
\* whose value differs
C7_Witness ==
    /\ derivedFrom.filterValue # All
    /\ Listed # {}
    /\ \E f \in Available \ Listed : InsideRoot(f) /\ f.frontmatter = {}
    /\ \E f \in Available \ Listed : InsideRoot(f) /\ f.frontmatter # {}

\* C8: with a search term the list holds exactly the documents, after
\* containment and property filter, whose basename contains the term ignoring
\* case; an empty term removes nothing.
C8_Search ==
    LET kept == {f \in Available : InsideRoot(f) /\ ~ExcludedByFilter(f)}
    IN  /\ derivedFrom.searchTerm # <<>> =>
              Listed = {f \in kept : ContainsIgnoringCase(basename(f), derivedFrom.searchTerm)}
        /\ derivedFrom.searchTerm = <<>> => Listed = kept

\* the search kept a document whose basename differs from the term in case and
\* removed another
C8_Witness ==
    /\ derivedFrom.searchTerm # <<>>
    /\ \E f \in Listed : ~includes(basename(f), derivedFrom.searchTerm)
    /\ \E f \in Available \ Listed : InsideRoot(f)

\* C9: for a selected project the derivation has three exclusive outcomes: no
\* folder path (empty or white space) gives NO_PATH_CONFIGURED and no chapters; a
\* path with no surviving document gives EMPTY and no groups; otherwise OK with
\* at least one group and no empty group.
C9_Outcomes ==
    HasProject =>
        /\ ~PathConfigured =>
              /\ table = NoTable("NO_PATH_CONFIGURED")
              /\ getProjectChapters(vault, DerivedRoot) = <<>>
        /\ PathConfigured /\ Survivors = {} => table = NoTable("EMPTY")
        /\ PathConfigured /\ Survivors # {} =>
              /\ table.outcome = "OK"
              /\ table.groups # <<>>
              /\ \A i \in 1..Len(table.groups) : table.groups[i].members # <<>>

\* a path of white space only, with documents in the vault
C9_Witness ==
    /\ HasProject
    /\ DerivedRoot # <<>>
    /\ ~PathConfigured
    /\ vault # <<>>
    /\ table.outcome = "NO_PATH_CONFIGURED"

(***************************************************************************)
(* Navigation: the next/previous chapter commands and the panel's buttons. *)
(***************************************************************************)
FirstChapterNotice == "This is the first chapter."

LastChapterNotice == "This is the last chapter."

\* NovelChapterPlugin.findProjectForFile: the first project whose folder holds the file
findProjectForFile(s, file) ==
    LET hits == {i \in 1..Len(s.novelProjects) :
                    /\ s.novelProjects[i].path # <<>>
                    /\ isFileInFolder(file, s.novelProjects[i].path)}
    IN  IF hits = {} THEN <<>>
        ELSE <<s.novelProjects[CHOOSE i \in hits : \A j \in hits : i <= j]>>

\* chapters.findIndex((chap) => chap.path === currentFile.path), counted from 1;
\* 0 stands for the -1 of a file that is not in the sequence
findIndex(chapters, currentFile) ==
    LET hits == {i \in 1..Len(chapters) : chapters[i].path = currentFile.path}
    IN  IF hits = {} THEN 0 ELSE CHOOSE i \in hits : \A j \in hits : i <= j

openNextMutWrapAround(chapters, currentFile) ==
    LET currentIndex == findIndex(chapters, currentFile)
    IN  IF currentIndex # 0
        THEN [opened |-> chapters[(currentIndex % Len(chapters)) + 1].path, notice |-> ""]
        ELSE [opened |-> <<>>, notice |-> LastChapterNotice]

\* the end of the "next" handlers, currentIndex !== -1 && currentIndex < chapters.length - 1:
\* the path given to openLinkText (or <<>>) and the notice shown (or "")
openNext(chapters, currentFile) ==
    LET currentIndex == findIndex(chapters, currentFile)
    IN  IF currentIndex # 0 /\ currentIndex < Len(chapters)
        THEN [opened |-> chapters[currentIndex + 1].path, notice |-> ""]
        ELSE [opened |-> <<>>, notice |-> LastChapterNotice]

\* the end of the "previous" handlers, currentIndex > 0
openPrevious(chapters, currentFile) ==
    LET currentIndex == findIndex(chapters, currentFile)
    IN  IF currentIndex > 1
        THEN [opened |-> chapters[currentIndex - 1].path, notice |-> ""]
        ELSE [opened |-> <<>>, notice |-> FirstChapterNotice]

\* what both buttons do before they look for the chapter: <<>> when they go on
buttonRefusal(s, selected, active) ==
    IF active = <<>>
    THEN <<[opened |-> <<>>, notice |-> "Open a chapter file to use navigation."]>>
    ELSE IF \/ findProjectForFile(s, active[1]) = <<>>
            \/ findProjectForFile(s, active[1])[1].id # selected
         THEN <<[opened |-> <<>>,
                 notice |-> "The active chapter doesn't belong to the selected project."]>>
         ELSE <<>>

\* the listings of the navigation runs: markdown files in the host's order
NavListings ==
    LET catalogue == << TFile(MdPath(FolderNC, <<"c", "2">>), {<<"status", Done>>}),
                        TFile(MdPath(<<"N", "/", "C", "2">>, <<"x">>), {<<"status", Done>>}),
                        TFile(MdPath(FolderNC \o <<"/", "A">>, <<"c", "3">>), {}),
                        TFile(MdPath(FolderNC, <<"c", "1">>), {<<"status", ToDo>>}) >>
    IN  { l \in { SelectSeq(catalogue, LAMBDA f : f \in S) : S \in SUBSET Range(catalogue) } :
            Len(l) <= MaxFiles }

\* two projects, in either order of the list; or the project N/C and, picked
\* in the panel's selector, a project for its subfolder N/C/A
NavSettings ==
    { [novelProjects |-> projects,
       propertyNameToChange |-> "status",
       propertyColumnHeader |-> <<>>,
       chapterTemplatePath |-> <<>>,
       propertyOptions |-> PropertyOptionsDefault,
       otherGroupName |-> OtherDefault,
       excludeOtherFromCount |-> FALSE,
       lastSelectedNovelId |-> IF projects[2].id = "p3" THEN "p3" ELSE NoId]
      : projects \in
          { <<NovelProject("p1", "My First Novel", FolderNC),
              NovelProject("p2", "Second", <<"N", "/", "C", "2">>)>>,
            <<NovelProject("p2", "Second", <<"N", "/", "C", "2">>),
              NovelProject("p1", "My First Novel", FolderNC)>>,
            <<NovelProject("p1", "My First Novel", FolderNC),
              NovelProject("p3", "Part A", FolderNC \o <<"/", "A">>)>> } }

\* the panel is open on the project picked in the selector, or else on the first
NavInit ==
    /\ vault \in NavListings
    /\ settings \in NavSettings
    /\ selectedNovelProjectId =
          IF settings.lastSelectedNovelId # NoId THEN settings.lastSelectedNovelId
          ELSE updateViewSelection(settings, NoId, TRUE)
    /\ filterValue = All
    /\ searchTerm = <<>>
    /\ table = renderChapterTable(vault, settings, selectedNovelProjectId, filterValue, searchTerm)
    /\ derivedFrom = inputsRead(vault, settings, selectedNovelProjectId, filterValue, searchTerm)
    /\ Idle
    /\ data = settings
    /\ phase = "open"

\* the effect of a navigation control: the notice, the document opened in the
\* active leaf, which becomes the active file; lastNav keeps the file the control
\* started from and whether the table listed the document that was opened
Navigate(control, outcome) ==
    /\ lastNav' = [control |-> control,
                   from |-> IF activeFile = <<>> THEN <<>> ELSE activeFile[1].path,
                   listed |-> \E f \in Listed : f.path = outcome.opened]
    /\ opened' = outcome.opened
    /\ notice' = outcome.notice
    /\ activeFile' = IF outcome.opened = <<>> THEN activeFile
                     ELSE <<TFile(outcome.opened, {})>>
    /\ UNCHANGED <<vault, settings, viewVars, data, phase, fileVars, lagging, tasks>>

\* the user brings a file to the front (a markdown file of the vault or the image
\* N/C/b.png), or closes the last one
SetActiveFile ==
    \E active \in {<<>>, <<TFile(FolderNC \o <<"/", "b", ".", "p", "n", "g">>, {})>>}
                  \cup {<<TFile(vault[i].path, {})>> : i \in 1..Len(vault)} :
        /\ activeFile' = active
        /\ UNCHANGED <<vault, settings, viewVars, opened, notice, lastNav, data, phase,
                       fileVars, lagging, tasks>>

\* "Novel Chapters: Open Next Chapter"; the checkCallback offers the command only
\* for an active file that lies in the folder of a project
NextChapterCommand ==
    /\ activeFile # <<>>
    /\ findProjectForFile(settings, activeFile[1]) # <<>>
    /\ Navigate("nextCommand",
                openNext(getProjectChapters(
                             vault, findProjectForFile(settings, activeFile[1])[1].path),
                         activeFile[1]))

\* "Novel Chapters: Open Previous Chapter"
PreviousChapterCommand ==
    /\ activeFile # <<>>
    /\ findProjectForFile(settings, activeFile[1]) # <<>>
    /\ Navigate("previousCommand",
                openPrevious(getProjectChapters(
                                 vault, findProjectForFile(settings, activeFile[1])[1].path),
                             activeFile[1]))

\* the panel's "Next Chapter" button, drawn when there are projects
NextChapterButton ==
    /\ Len(settings.novelProjects) > 0
    /\ Navigate("nextButton",
                IF buttonRefusal(settings, selectedNovelProjectId, activeFile) # <<>>
                THEN buttonRefusal(settings, selectedNovelProjectId, activeFile)[1]
                ELSE openNext(getProjectChapters(
                                  vault, findProjectForFile(settings, activeFile[1])[1].path),
                              activeFile[1]))

\* the panel's "Previous Chapter" button
PreviousChapterButton ==
    /\ Len(settings.novelProjects) > 0
    /\ Navigate("previousButton",
                IF buttonRefusal(settings, selectedNovelProjectId, activeFile) # <<>>
                THEN buttonRefusal(settings, selectedNovelProjectId, activeFile)[1]
                ELSE openPrevious(getProjectChapters(
                                      vault, findProjectForFile(settings, activeFile[1])[1].path),
                                  activeFile[1]))

NavNext ==
    \/ SetActiveFile
    \/ NextChapterCommand
    \/ PreviousChapterCommand
    \/ NextChapterButton
    \/ PreviousChapterButton
    \/ SetSearchTerm
    \/ SetFilterValue
    \/ SetOtherGroupName
    \/ SetExcludeOtherFromCount

NavSpec == NavInit /\ [][NavNext]_vars

(***************************************************************************)
(* The navigation that took place, read off lastNav.                       *)
(***************************************************************************)
NextControls == {"nextCommand", "nextButton"}

PreviousControls == {"previousCommand", "previousButton"}

ButtonControls == {"nextButton", "previousButton"}

\* a control was used while a file was active
NavFrom == lastNav.control # "none" /\ lastNav.from # <<>>

NavFile == TFile(lastNav.from, {})

\* position of the path in the sequence, 0 when it is not there
PositionOf(seq, path) ==
    IF \E i \in 1..Len(seq) : seq[i].path = path
    THEN CHOOSE i \in 1..Len(seq) : seq[i].path = path
    ELSE 0

\* the claim of C11 for one sequence: nothing opened and the signal at the ends,
\* the neighbour opened elsewhere
AdjacentOpened(seq) ==
    LET i == PositionOf(seq, lastNav.from)
        N == Len(seq)
    IN  /\ (lastNav.control \in NextControls /\ i = N)
            => opened = <<>> /\ notice = LastChapterNotice
        /\ (lastNav.control \in NextControls /\ i < N)
            => opened = seq[i + 1].path
        /\ (lastNav.control \in PreviousControls /\ i = 1)
            => opened = <<>> /\ notice = FirstChapterNotice
        /\ (lastNav.control \in PreviousControls /\ i > 1)
            => opened = seq[i - 1].path

\* the project the controls navigate in: the one found for the active file
NavProject == findProjectForFile(settings, NavFile)

\* the buttons act only for a file whose project is the one the panel shows
NavAllowed ==
    /\ NavFrom
    /\ NavProject # <<>>
    /\ lastNav.control \in ButtonControls => NavProject[1].id = selectedNovelProjectId

NavSequence == getProjectChapters(vault, NavProject[1].path)

\* C11, as stated: for every project whose sorted chapter sequence holds the
\* active document at index i, each of the four controls opens nothing at the end
\* of the sequence (next at the last, previous at the first chapter, with the
\* signal) and opens the neighbour otherwise.
C11_AnyProject ==
    NavFrom =>
        \A k \in 1..Len(settings.novelProjects) :
            LET seq == getProjectChapters(vault, settings.novelProjects[k].path)
            IN  PositionOf(seq, lastNav.from) # 0 => AdjacentOpened(seq)

\* C11, amended: the same for the sequence of the project found for the active
\* document, where a button acts only if that project is the selected one.
C11_Adjacent ==
    (NavAllowed /\ PositionOf(NavSequence, lastNav.from) # 0) => AdjacentOpened(NavSequence)

\* the "Next" button was used on the middle one of three chapters
C11_Witness ==
    /\ NavAllowed
    /\ lastNav.control = "nextButton"
    /\ Len(NavSequence) = 3
    /\ PositionOf(NavSequence, lastNav.from) = 2
    /\ opened = NavSequence[3].path

\* C12: a control used on a file that is not in the chapter sequence of its
\* project opens nothing and shows a notice that is neither the "first chapter"
\* nor the "last chapter" signal.
C12_NotPartOfProject ==
    (NavAllowed /\ PositionOf(NavSequence, lastNav.from) = 0)
        => /\ opened = <<>>
           /\ notice \notin {"", FirstChapterNotice, LastChapterNotice}

\* C26: a button used while the active markdown file lies inside the folder of
\* the selected project does not report that the chapter does not belong to
\* the selected project, and navigates within the chapter sequence of the
\* selected project.
C26_ButtonsInSelectedProject ==
    LET selected == findProject(settings.novelProjects, selectedNovelProjectId)
    IN  (/\ lastNav.control \in ButtonControls
         /\ lastNav.from # <<>>
         /\ endsWith(lastNav.from, MdExt)
         /\ selected # <<>>
         /\ isFileInFolder(NavFile, selected[1].path))
        => /\ notice # "The active chapter doesn't belong to the selected project."
           /\ AdjacentOpened(getProjectChapters(vault, selected[1].path))

\* the markdown files inside the folder of the navigated project, whatever the
\* panel filters, searches or groups
InsideNavFolder ==
    { f \in Range(vault) : startsWith(f.path, NavProject[1].path \o <<"/">>) }

LaterChapters == { f \in InsideNavFolder : localeCompare(lastNav.from, f.path) < 0 }

EarlierChapters == { f \in InsideNavFolder : localeCompare(lastNav.from, f.path) > 0 }

\* C13: a control used on a chapter opens the nearest chapter after (before) it
\* among all markdown files of the project folder, a document fixed by the
\* document set, the project and the active file alone: filterValue, searchTerm,
\* otherGroupName and excludeOtherFromCount have no part in it.
C13_Unfiltered ==
    (NavAllowed /\ \E f \in InsideNavFolder : f.path = lastNav.from) =>
        /\ lastNav.control \in NextControls =>
              IF LaterChapters = {} THEN opened = <<>>
              ELSE /\ \E f \in LaterChapters : f.path = opened
                   /\ \A f \in LaterChapters : localeCompare(opened, f.path) <= 0
        /\ lastNav.control \in PreviousControls =>
              IF EarlierChapters = {} THEN opened = <<>>
              ELSE /\ \E f \in EarlierChapters : f.path = opened
                   /\ \A f \in EarlierChapters : localeCompare(opened, f.path) >= 0

\* a chapter was opened that the table, filtered at that moment, did not list
C13_Witness ==
    /\ NavAllowed
    /\ opened # <<>>
    /\ ~lastNav.listed
    /\ \E f \in InsideNavFolder : f.path = opened

(***************************************************************************)
(* Start-up: loadSettings over persisted data of any shape, then the panel *)
(* is opened.                                                              *)
(***************************************************************************)
\* a key that data.json does not hold
Missing == <<"<missing>">>

DEFAULT_SETTINGS ==
    [novelProjects |-> <<NovelProject("default-0", "My First Novel", FolderNC)>>,
     propertyNameToChange |-> "status",
     propertyColumnHeader |-> <<>>,
     chapterTemplatePath |-> <<>>,
     propertyOptions |-> PropertyOptionsDefault,
     otherGroupName |-> OtherDefault,
     excludeOtherFromCount |-> FALSE,
     lastSelectedNovelId |-> NoId]

\* `generated-${Date.now()}` for the clock readings of the model
GeneratedId == [t \in {1, 2} |-> IF t = 1 THEN "generated-1" ELSE "generated-2"]

\* NovelChapterPlugin.loadSettings: Object.assign({}, DEFAULT_SETTINGS, data) and
\* the integrity checks; now[i] is the clock reading when entry i is mapped
loadSettings(d, now) ==
    LET projects == IF Len(d.novelProjects) = 0
                    THEN <<NovelProject("default-load-1", "Default Novel", <<>>)>>
                    ELSE d.novelProjects
        mapped == [i \in 1..Len(projects) |->
                     NovelProject(
                         IF projects[i].id # "" THEN projects[i].id ELSE GeneratedId[now[i]],
                         IF projects[i].name # "" THEN projects[i].name ELSE "Unnamed Novel",
                         projects[i].path)]
        assigned(key) == IF d[key] = Missing THEN DEFAULT_SETTINGS[key] ELSE d[key]
    IN  [novelProjects |-> mapped,
         propertyNameToChange |-> d.propertyNameToChange,
         propertyColumnHeader |-> assigned("propertyColumnHeader"),
         chapterTemplatePath |-> d.chapterTemplatePath,
         propertyOptions |-> assigned("propertyOptions"),
         otherGroupName |-> assigned("otherGroupName"),
         excludeOtherFromCount |-> d.excludeOtherFromCount,
         lastSelectedNovelId |->
             IF d.lastSelectedNovelId # NoId /\ findProject(mapped, d.lastSelectedNovelId) = <<>>
             THEN mapped[1].id
             ELSE d.lastSelectedNovelId]

\* the shapes of data.json: project entries without id or with the same id, keys
\* that are missing, null or a number
PersistedData ==
    { [novelProjects |-> projects,
       propertyNameToChange |-> "status",
       propertyColumnHeader |-> header,
       chapterTemplatePath |-> <<>>,
       propertyOptions |-> options,
       otherGroupName |-> other,
       excludeOtherFromCount |-> FALSE,
       lastSelectedNovelId |-> last]
      : projects \in { <<>>,
                       <<NovelProject("", "", FolderNC), NovelProject("", "B", <<>>)>>,
                       <<NovelProject("p1", "A", FolderNC), NovelProject("p1", "B", <<>>)>>,
                       <<NovelProject("p1", "A", FolderNC), NovelProject("p2", "B", <<>>)>> },
        header \in {Missing, Null},
        options \in {Missing, Null, ANumber},
        other \in {Missing, Null},
        last \in {NoId, "p2"} }

\* before onload: nothing is loaded, there is no panel
LoadInit ==
    /\ vault = << TFile(MdPath(FolderNC, <<"c", "1">>), {<<"status", ToDo>>}),
                  TFile(MdPath(FolderNC \o <<"/", "A">>, <<"c", "3">>), {}) >>
    /\ data \in PersistedData
    /\ phase = "unloaded"
    /\ settings = DEFAULT_SETTINGS
    /\ selectedNovelProjectId = NoId
    /\ filterValue = All
    /\ searchTerm = <<>>
    /\ table = NoTable("BLANK")
    /\ derivedFrom = inputsRead(vault, settings, NoId, filterValue, searchTerm)
    /\ Idle

\* NovelChapterPlugin.onload: loadSettings; the clock does not go back between
\* the readings of Date.now() for the first and the second project entry
LoadSettings ==
    /\ phase = "unloaded"
    /\ \E now \in {r \in [1..2 -> DOMAIN GeneratedId] : r[1] <= r[2]} :
           settings' = loadSettings(data, now)
    /\ phase' = "loaded"
    /\ UNCHANGED <<vault, viewVars, data, navVars, fileVars, lagging, tasks>>

\* activateView, then NovelChapterView.onOpen: updateView(true)
OpenPanel ==
    /\ phase = "loaded"
    /\ phase' = "open"
    /\ UpdateView(vault, settings, TRUE)
    /\ UNCHANGED <<vault, settings, filterValue, searchTerm, data, navVars, fileVars, lagging,
                   tasks>>

\* a markdown file of the vault is modified; the "modify" event reaches handleFileChange
VaultModify ==
    \E i \in 1..Len(vault) :
        /\ HandleFileChange(vault, vault[i].path)
        /\ UNCHANGED vault

LoadNext ==
    \/ LoadSettings
    \/ OpenPanel
    \/ VaultModify
    \/ SetSearchTerm

LoadSpec == LoadInit /\ [][LoadNext]_vars

\* C14: deriving the chapter list never throws, whatever the shape of the stored
\* settings: no refresh of the panel ends in a TypeError.
C14_NeverThrows == table.outcome # "TYPE_ERROR"

\* C15: the ids of settings.novelProjects are pairwise different once the
\* settings are loaded.
C15_UniqueIds ==
    phase # "unloaded" =>
        \A i, j \in 1..Len(settings.novelProjects) :
            i # j => settings.novelProjects[i].id # settings.novelProjects[j].id

\* C22: once the panel has been opened on loaded settings whose
\* lastSelectedNovelId names a project of the list, the panel has that project
\* selected (the settings being such that the controls can be drawn).
C22_LastSelectedRestored ==
    (/\ phase = "open"
     /\ settings.propertyOptions \notin {Null, ANumber}
     /\ settings.lastSelectedNovelId # NoId
     /\ findProject(settings.novelProjects, settings.lastSelectedNovelId) # <<>>)
    => selectedNovelProjectId = settings.lastSelectedNovelId

(***************************************************************************)
(* The project list: "Add Novel", the remove buttons and the panel's       *)
(* project selector.                                                       *)
(***************************************************************************)
\* generateId(), `novel-${Date.now()}-${random}`: the values it returns here
GeneratedNovelIds == {"novel-1-a", "novel-2-b"}

\* `New Novel ${novelProjects.length + 1}`
NewNovelName(n) ==
    IF n = 1 THEN "New Novel 1" ELSE IF n = 2 THEN "New Novel 2"
    ELSE IF n = 3 THEN "New Novel 3" ELSE "New Novel 4"

\* loaded settings with two projects; the panel is open or not yet
ConfigInit ==
    /\ vault = << TFile(MdPath(FolderNC, <<"c", "1">>), {<<"status", ToDo>>}),
                  TFile(MdPath(<<"N", "/", "C", "2">>, <<"x">>), {<<"status", Done>>}) >>
    /\ settings = [DEFAULT_SETTINGS EXCEPT !.novelProjects =
                      <<NovelProject("p1", "My First Novel", FolderNC),
                        NovelProject("p2", "Second", <<"N", "/", "C", "2">>)>>]
    /\ data = settings
    /\ phase \in {"loaded", "open"}
    /\ selectedNovelProjectId =
          IF phase = "open" THEN updateViewSelection(settings, NoId, TRUE) ELSE NoId
    /\ filterValue = All
    /\ searchTerm = <<>>
    /\ table = renderChapterTable(vault, settings, selectedNovelProjectId, filterValue, searchTerm)
    /\ derivedFrom = inputsRead(vault, settings, selectedNovelProjectId, filterValue, searchTerm)
    /\ Idle

\* settings tab, "Add Novel"
AddNovel ==
    \E id \in GeneratedNovelIds :
        /\ phase # "unloaded"
        /\ Len(settings.novelProjects) < MaxProjects
        /\ SaveSettings([settings EXCEPT !.novelProjects =
                            Append(@, NovelProject(id, NewNovelName(Len(@) + 1), <<>>))])

\* settings tab, the remove button of a project: novelProjects.splice(index, 1),
\* the click taken on rows drawn from the current list and the save resolved at
\* once (TabSpec has the rows as drawn and the save pending)
RemoveNovel ==
    \E index \in 1..Len(settings.novelProjects) :
        /\ phase # "unloaded"
        /\ SaveSettings([settings EXCEPT !.novelProjects =
                            SubSeq(@, 1, index - 1) \o SubSeq(@, index + 1, Len(@))])

\* panel, the project selector: the selection is stored as lastSelectedNovelId,
\* the settings are saved (which refreshes the panel) and the table is drawn
SelectProject ==
    \E i \in 1..Len(settings.novelProjects) :
        /\ phase = "open"
        /\ settings' = [settings EXCEPT !.lastSelectedNovelId = settings.novelProjects[i].id]
        /\ data' = saveData(settings')
        /\ selectedNovelProjectId' =
              updateViewSelection(settings', settings.novelProjects[i].id, TRUE)
        /\ RenderTable(vault, settings', selectedNovelProjectId', filterValue, searchTerm)
        /\ UNCHANGED <<vault, filterValue, searchTerm, extVars>>

\* settings tab, "Property Options": the options are assigned and saved, which
\* refreshes the panel with its controls; the refresh the handler adds after
\* the save draws the same table again
SetPropertyOptions ==
    \E value \in {<<>>, PropertyOptionsDefault} :
        /\ phase # "unloaded"
        /\ SaveSettings([settings EXCEPT !.propertyOptions = value])

ConfigNext ==
    \/ AddNovel
    \/ RemoveNovel
    \/ SelectProject
    \/ SetExcludeOtherFromCount
    \/ SetPropertyOptions
    \/ SetFilterValue
    \/ OpenPanel

ConfigSpec == ConfigInit /\ [][ConfigNext]_vars

IdsOf(projects) == { projects[i].id : i \in 1..Len(projects) }

\* C16: when a step removes a project, so that its id is no longer in
\* settings.novelProjects, then after the step (the removal, the save and the
\* refresh of the panel) neither selectedNovelProjectId nor
\* settings.lastSelectedNovelId is that id.
C16_NotReferenced ==
    [][\A id \in IdsOf(settings.novelProjects) \ IdsOf(settings'.novelProjects) :
          /\ selectedNovelProjectId' # id
          /\ settings'.lastSelectedNovelId # id]_vars

\* C17: every step that changes plugin.settings (a control of the settings tab
\* or the project selector was used) leaves data.json equal to the changed record.
C17_Saved == [][settings' # settings => data' = settings']_vars

\* the selector was used and a project added, and data.json holds both changes
C17_Witness ==
    /\ settings.lastSelectedNovelId = "p2"
    /\ Len(settings.novelProjects) = 3
    /\ data = settings

\* C27: the panel's filterValue is "all" or one of the options configured in
\* settings.propertyOptions, the values the filter dropdown offers.
C27_FilterOffered ==
    filterValue = All \/ IsIn(optionsArray(settings.propertyOptions), filterValue)

\* C23: while the panel is open (every step ends with a completed updateView),
\* whatever projects were added, removed or selected, the panel's selection
\* is the id of a project of the list, and it is null exactly when the list
\* is empty.
C23_SelectionValid ==
    phase = "open" =>
        /\ selectedNovelProjectId = NoId <=> Len(settings.novelProjects) = 0
        /\ selectedNovelProjectId # NoId =>
               findProject(settings.novelProjects, selectedNovelProjectId) # <<>>

\* C23 witness: the selected project p2 was removed and the selection went to
\* a project added since, the first of the list now
C23_Witness ==
    /\ phase = "open"
    /\ settings.lastSelectedNovelId = "p2"
    /\ findProject(settings.novelProjects, "p2") = <<>>
    /\ findProject(settings.novelProjects, "p1") = <<>>
    /\ Len(settings.novelProjects) = 1
    /\ selectedNovelProjectId = settings.novelProjects[1].id

(***************************************************************************)
(* Chapter operations: move, rename, delete and create, with host calls    *)
(* that can fail.                                                          *)
(***************************************************************************)
\* how many chapters the folder of the project can hold
MaxChapters == 2

sanitizeMutNoTrim(chapterName) ==
    SelectSeq(chapterName, LAMBDA c : c \notin {"\\", "/", ":", "*", "?", "\"", "<", ">", "|"})

\* name.replace(/[\\/:*?"<>|]/g, "").trim()
sanitize(chapterName) ==
    trim(SelectSeq(chapterName,
                   LAMBDA c : c \notin {"\\", "/", ":", "*", "?", "\"", "<", ">", "|"}))

\* file.parent.path
parentPath(file) == SubSeq(file.path, 1, Len(file.path) - Len(name(file)) - 1)

adapterExistsMutNever(files, path) == FALSE

\* this.app.vault.adapter.exists(path), for the path of a markdown file
adapterExists(files, path) == \E g \in Range(files) : g.path = path

trashMutFirst(files, path) == Tail(files)

\* this.app.vault.trash(file, true): the files of the vault without the file
trash(files, path) == SelectSeq(files, LAMBDA g : g.path # path)

\* the end of a chapter operation: what it was given, the path it tested (dest,
\* once the test has answered) and the host call it issued with its path
\* (target), the notice it showed (or ""), the error that escaped it (or ""),
\* the files of the vault afterwards, and the refresh that handleFileChange
\* gives for the paths of the vault's event, if there was one
FileOperation(done, text, error, files, eventPaths) ==
    /\ fileOp' = done
    /\ notice' = text
    /\ uncaught' = error
    /\ vault' = files
    /\ IF phase = "open" /\ \E path \in eventPaths : isRelevantChange(settings, path)
       THEN UpdateView(files, settings, FALSE) /\ UNCHANGED <<filterValue, searchTerm>>
       ELSE UNCHANGED viewVars
    /\ UNCHANGED <<settings, data, phase, activeFile, opened, lastNav, settingsTab, lagging,
                   tasks>>

\* the folders a chapter can be moved to or created in: the project folder and
\* its subfolder, both of which exist
Folders == { FolderNC, FolderNC \o <<"/", "A">> }

\* what the user can type as a chapter name
NameInputs == { <<"?", " ", "c", "2">>, <<"c", "?", "1">>, <<"?">> }

\* the panel is open on the project N/C, which holds one chapter; either no
\* template is configured, or the template T.md is and exists
FileOpInit ==
    /\ vault \in { <<TFile(MdPath(FolderNC, <<"c", "1">>), {<<"status", ToDo>>})>>,
                   <<TFile(<<"T", ".", "m", "d">>, {<<"status", ToDo>>}),
                     TFile(MdPath(FolderNC \o <<"/", "A">>, <<"c", "1">>), {})>> }
    /\ settings = [DEFAULT_SETTINGS EXCEPT
                       !.chapterTemplatePath = IF Len(vault) = 1 THEN <<>>
                                               ELSE <<"T", ".", "m", "d">>,
                       !.novelProjects[1].id = "p1"]
    /\ data = settings
    /\ phase = "open"
    /\ selectedNovelProjectId = updateViewSelection(settings, NoId, TRUE)
    /\ filterValue = All
    /\ searchTerm = <<>>
    /\ table = renderChapterTable(vault, settings, selectedNovelProjectId, filterValue, searchTerm)
    /\ derivedFrom = inputsRead(vault, settings, selectedNovelProjectId, filterValue, searchTerm)
    /\ Idle

\* moveChapter, as the entries of the context menu "Move to" call it. The menu
\* disables the entry of the folder the file is in; the method tests it again.
MoveChapter ==
    \E i \in 1..Len(vault), destinationFolderPath \in Folders, failed \in {"none", "exists", "rename"} :
        LET newPath == normalizePath(destinationFolderPath \o <<"/">> \o name(vault[i]))
            done(fails, dest, call) ==
                [op |-> "move", failed |-> fails, file |-> vault[i].path, input |-> <<>>,
                 dest |-> dest, call |-> call, target |-> newPath]
        IN  /\ phase = "open"
            /\ modal.file = <<>>
            /\ vault[i] \in Listed
            /\ modal' = [file |-> <<>>, pressed |-> "none"]
            /\ IF vault[i].path = newPath
               THEN /\ failed = "none"
                    /\ FileOperation(done("none", <<>>, "none"),
                                     "Chapter is already in that folder.", "", vault, {})
               ELSE IF failed = "exists"
               THEN FileOperation(done("exists", <<>>, "none"), "", "HostError", vault, {})
               ELSE IF adapterExists(vault, newPath)
               THEN /\ failed = "none"
                    /\ FileOperation(done("none", newPath, "none"),
                                     "A file with that name already exists in the destination.",
                                     "", vault, {})
               ELSE IF failed = "rename"
               THEN FileOperation(done("rename", newPath, "renameFile"),
                                  "Failed to move chapter. See console for details.",
                                  "", vault, {})
               ELSE FileOperation(done("none", newPath, "renameFile"), "Moved successfully.", "",
                                  [vault EXCEPT ![i].path = newPath], {newPath, vault[i].path})

\* context menu of a chapter row, "Rename": the modal's callback and renameChapter
RenameChapter ==
    \E i \in 1..Len(vault), newName \in NameInputs, failed \in {"none", "exists", "rename"} :
        LET newPath == parentPath(vault[i]) \o <<"/">> \o sanitize(newName) \o MdExt
            done(fails, dest, call, target) ==
                [op |-> "rename", failed |-> fails, file |-> vault[i].path, input |-> newName,
                 dest |-> dest, call |-> call, target |-> target]
        IN  /\ phase = "open"
            /\ modal.file = <<>>
            /\ vault[i] \in Listed
            /\ newName # basename(vault[i])
            /\ modal' = [file |-> <<>>, pressed |-> "none"]
            /\ IF sanitize(newName) = <<>>
               THEN /\ failed = "none"
                    /\ FileOperation(done("none", <<>>, "none", <<>>),
                                     "Invalid chapter name provided.", "", vault, {})
               ELSE IF failed = "exists"
               THEN FileOperation(done("exists", <<>>, "none", newPath), "", "HostError", vault, {})
               ELSE IF adapterExists(vault, normalizePath(newPath))
               THEN /\ failed = "none"
                    /\ FileOperation(done("none", normalizePath(newPath), "none", newPath),
                                     "A chapter with that name already exists.", "", vault, {})
               ELSE IF failed = "rename"
               THEN FileOperation(done("rename", normalizePath(newPath), "renameFile", newPath),
                                  "Failed to rename chapter. See console for details.", "", vault, {})
               ELSE FileOperation(done("none", normalizePath(newPath), "renameFile", newPath),
                                  "Chapter renamed.", "",
                                  [vault EXCEPT ![i].path = newPath], {newPath, vault[i].path})

\* context menu of a chapter row, "Delete": promptAndDeleteChapter opens the
\* confirmation dialog for the file
PromptDelete ==
    \E i \in 1..Len(vault) :
        /\ phase = "open"
        /\ modal.file = <<>>
        /\ vault[i] \in Listed
        /\ modal' = [file |-> <<vault[i].path>>, pressed |-> "none"]
        /\ UNCHANGED <<vault, settings, viewVars, data, navVars, phase, uncaught, fileOp,
                       settingsTab, lagging, tasks>>

\* the dialog's Cancel button, or the dialog is closed: close() and nothing else
CancelDelete ==
    /\ modal.file # <<>>
    /\ modal' = [file |-> <<>>, pressed |-> "cancel"]
    /\ UNCHANGED <<vault, settings, viewVars, data, navVars, phase, uncaught, fileOp,
                   settingsTab, lagging, tasks>>

\* the dialog's Confirm button: onConfirm, that is deleteChapter for the file of
\* the dialog, then close()
DeleteChapter ==
    \E failed \in {"none", "trash"} :
        LET done == [op |-> "delete", failed |-> failed, file |-> modal.file[1], input |-> <<>>,
                     dest |-> <<>>, call |-> "trash", target |-> modal.file[1]]
        IN  /\ modal.file # <<>>
            /\ modal' = [file |-> <<>>, pressed |-> "confirm"]
            /\ IF failed = "trash"
               THEN FileOperation(done, "Failed to delete chapter. See console for details.",
                                  "", vault, {})
               ELSE FileOperation(done, "Chapter moved to trash.", "",
                                  trash(vault, modal.file[1]), {modal.file[1]})

\* the "New Chapter" button: promptAndCreateNewChapter and the modal's callback;
\* the new file holds the template's content, or the default frontmatter
CreateChapter ==
    \E selectedFolderPath \in Folders, chapterName \in NameInputs,
       failed \in {"none", "exists", "read", "create"} :
        LET found == findProject(settings.novelProjects, selectedNovelProjectId)
            filePath == normalizePath(selectedFolderPath \o <<"/">> \o sanitize(chapterName) \o MdExt)
            templatePath == trim(settings.chapterTemplatePath)
            templates == {g \in Range(vault) :
                             templatePath # <<>> /\ g.path = normalizePath(templatePath)}
            fileContent ==
                IF templates # {} THEN (CHOOSE g \in templates : TRUE).frontmatter
                ELSE {<<"title", chapterName>>}
                     \cup (IF settings.propertyNameToChange # ""
                           THEN {<<settings.propertyNameToChange, <<>>>>} ELSE {})
            done(fails, dest, call, target) ==
                [op |-> "create", failed |-> fails, file |-> <<>>, input |-> chapterName,
                 dest |-> dest, call |-> call, target |-> target]
        IN  /\ phase = "open"
            /\ modal.file = <<>>
            /\ Len(settings.novelProjects) > 0
            /\ Len(SelectSeq(vault, LAMBDA g : isFileInFolder(g, FolderNC))) < MaxChapters
            /\ modal' = [file |-> <<>>, pressed |-> "none"]
            /\ IF selectedNovelProjectId = NoId
               THEN /\ failed = "none"
                    /\ FileOperation(done("none", <<>>, "none", <<>>),
                                     "Please select a novel project first.", "", vault, {})
               ELSE IF found = <<>> \/ trim(found[1].path) = <<>>
               THEN /\ failed = "none"
                    /\ FileOperation(done("none", <<>>, "none", <<>>),
                           "The selected project does not have a valid folder path configured.",
                           "", vault, {})
               ELSE IF sanitize(chapterName) = <<>>
               THEN /\ failed = "none"
                    /\ FileOperation(done("none", <<>>, "none", <<>>),
                                     "Invalid chapter name.", "", vault, {})
               ELSE IF failed = "exists"
                       THEN FileOperation(done("exists", <<>>, "none", filePath),
                                          "", "HostError", vault, {})
                       ELSE IF adapterExists(vault, filePath)
                       THEN /\ failed = "none"
                            /\ FileOperation(done("none", filePath, "none", filePath),
                                   "A chapter with that name already exists.", "", vault, {})
                       ELSE IF failed = "read"
                       THEN /\ templatePath # <<>>
                            /\ templates # {}
                            /\ FileOperation(done("read", filePath, "none", filePath),
                                             "", "HostError", vault, {})
                       ELSE IF failed = "create"
                       THEN FileOperation(done("create", filePath, "create", filePath),
                                "Failed to create new chapter. Check console for details.",
                                "", vault, {})
                       ELSE FileOperation(done("none", filePath, "create", filePath),
                                "Chapter created successfully.", "",
                                Append(vault, TFile(filePath, fileContent)),
                                {filePath})

FileOpNext ==
    \/ MoveChapter
    \/ RenameChapter
    \/ PromptDelete
    \/ CancelDelete
    \/ DeleteChapter
    \/ CreateChapter

FileOpSpec == FileOpInit /\ [][FileOpNext]_vars

\* C18: whenever a host call of the last chapter operation failed (existence
\* check, template read, create, rename or trash), the operation showed a
\* notice and no error escaped it.
C18_FailuresReported == fileOp.failed # "none" => (notice # "" /\ uncaught = "")

\* C21: a move, rename or create whose existence test found a document at the
\* destination issues no host call, leaves every document (the source too) as
\* it was and tells the user that the name exists already; a move to the path
\* the chapter has issues no rename either.
C21_NeverReplaces ==
    [][(modal.file = <<>> /\ modal' = [file |-> <<>>, pressed |-> "none"]) =>
          /\ (fileOp'.dest # <<>> /\ \E g \in Range(vault) : g.path = fileOp'.dest) =>
                 /\ fileOp'.call = "none"
                 /\ vault' = vault
                 /\ notice' \in {"A file with that name already exists in the destination.",
                                 "A chapter with that name already exists."}
          /\ (fileOp'.op = "move" /\ fileOp'.target = fileOp'.file) =>
                 (fileOp'.call = "none" /\ vault' = vault)]_vars

\* C21 witness: a chapter was to be renamed to the name of another chapter of
\* its folder, and both are still there
C21_Witness ==
    /\ fileOp.op = "rename"
    /\ fileOp.dest # <<>>
    /\ fileOp.dest # fileOp.file
    /\ fileOp.call = "none"
    /\ notice = "A chapter with that name already exists."
    /\ {fileOp.file, fileOp.dest} \subseteq {vault[i].path : i \in 1..Len(vault)}

\* C24: a document leaves the vault only in the step in which Confirm is
\* pressed in the confirmation dialog opened for that very document, and no
\* other document leaves with it; Cancel (or closing the dialog) leaves the
\* documents as they were.
C24_TrashAfterConfirm ==
    [][/\ Len(vault') < Len(vault) =>
              /\ modal.file # <<>>
              /\ modal'.pressed = "confirm"
              /\ vault' = SelectSeq(vault, LAMBDA g : g.path # modal.file[1])
              /\ Len(vault') = Len(vault) - 1
       /\ (modal.file # <<>> /\ modal'.pressed = "cancel") => vault' = vault]_vars

\* C24 witness: with two chapters listed, Confirm was pressed for the second
\* one, which is gone, and the first is still there
C24_Witness ==
    /\ modal.pressed = "confirm"
    /\ fileOp.op = "delete"
    /\ fileOp.failed = "none"
    /\ Len(vault) >= 1
    /\ \A i \in 1..Len(vault) : vault[i].path # fileOp.file
    /\ localeCompare(vault[1].path, fileOp.file) < 0

MaxPending == 2

\* handleFileChange up to its await: an event with a path in some project's
\* folder leaves the handler asleep, any other event is dropped
handleFileChangeSleeps(paths) ==
    IF \E path \in paths : isRelevantChange(settings, path)
    THEN tasks.timers + tasks.saves + tasks.resumes < MaxPending /\ tasks' = [tasks EXCEPT !.timers = @ + 1]
    ELSE UNCHANGED tasks

\* the entries of the metadata cache after the file at old is written: its entry
\* is left as it was until the host has indexed the file again
lagBehind(stale, old) ==
    IF \E e \in stale : e.path = old.path THEN stale ELSE stale \cup {old}

\* the panel is open on the project N/C, which holds one chapter
RefreshInit ==
    /\ vault = <<TFile(MdPath(FolderNC, <<"c", "1">>), {<<"status", ToDo>>})>>
    /\ settings = [DEFAULT_SETTINGS EXCEPT !.novelProjects[1].id = "p1"]
    /\ data = settings
    /\ phase = "open"
    /\ selectedNovelProjectId = updateViewSelection(settings, NoId, TRUE)
    /\ filterValue = All
    /\ searchTerm = <<>>
    /\ table = renderChapterTable(vault, settings, selectedNovelProjectId, filterValue, searchTerm)
    /\ derivedFrom = inputsRead(vault, settings, selectedNovelProjectId, filterValue, searchTerm)
    /\ Idle

\* vault.on("create"): the chapter c3 is created in the subfolder A
CreateEvent ==
    \E f \in { TFile(MdPath(FolderNC \o <<"/", "A">>, <<"c", "3">>), {<<"status", Done>>}) } :
        /\ \A i \in 1..Len(vault) : vault[i].path # f.path
        /\ vault' = Append(vault, f)
        /\ lagging' = lagBehind(lagging, TFile(f.path, {}))
        /\ handleFileChangeSleeps({f.path})
        /\ UNCHANGED <<settings, viewVars, data, navVars, phase, fileVars>>

\* vault.on("modify"): the frontmatter of c1 is rewritten
ModifyEvent ==
    \E i \in 1..Len(vault), frontmatter \in {{<<"status", ToDo>>}, {<<"status", Done>>}} :
        /\ basename(vault[i]) = <<"c", "1">>
        /\ frontmatter # vault[i].frontmatter
        /\ vault' = [vault EXCEPT ![i].frontmatter = frontmatter]
        /\ lagging' = lagBehind(lagging, vault[i])
        /\ handleFileChangeSleeps({vault[i].path})
        /\ UNCHANGED <<settings, viewVars, data, navVars, phase, fileVars>>

\* vault.on("delete"): c3 is deleted
DeleteEvent ==
    \E i \in 1..Len(vault) :
        /\ basename(vault[i]) = <<"c", "3">>
        /\ vault' = SubSeq(vault, 1, i - 1) \o SubSeq(vault, i + 1, Len(vault))
        /\ lagging' = {e \in lagging : e.path # vault[i].path}
        /\ handleFileChangeSleeps({vault[i].path})
        /\ UNCHANGED <<settings, viewVars, data, navVars, phase, fileVars>>

\* vault.on("rename"): N/C/c1.md is moved out of the project to X/c1.md, or
\* back; the handler is given the new path and the old one
RenameEvent ==
    \E i \in 1..Len(vault), folder \in {FolderNC, <<"X">>} :
        LET newPath == MdPath(folder, <<"c", "1">>)
        IN  /\ basename(vault[i]) = <<"c", "1">>
            /\ vault[i].path # newPath
            /\ vault' = [vault EXCEPT ![i].path = newPath]
            /\ lagging' = {IF e.path = vault[i].path THEN TFile(newPath, e.frontmatter) ELSE e
                           : e \in lagging}
            /\ handleFileChangeSleeps({newPath, vault[i].path})
            /\ UNCHANGED <<settings, viewVars, data, navVars, phase, fileVars>>

\* the host has indexed a written file: getFileCache returns its frontmatter
CacheIndexed ==
    \E e \in lagging :
        /\ lagging' = lagging \ {e}
        /\ UNCHANGED <<vault, settings, viewVars, data, navVars, phase, fileVars, tasks>>

\* sleep(150) is over: handleFileChange calls refreshNovelChapterView(false),
\* and updateView(false) runs to its end
TimerFires ==
    /\ tasks.timers > 0
    /\ tasks' = [tasks EXCEPT !.timers = @ - 1]
    /\ UpdateView(getFileCache(vault, lagging), settings, FALSE)
    /\ UNCHANGED <<vault, settings, filterValue, searchTerm, data, navVars, phase, fileVars,
                   lagging>>

\* a handler of the settings tab up to the await of saveSettings: the setting
\* is assigned and saveData is called
ChangeSetting ==
    \E value \in BOOLEAN :
        /\ tasks.timers + tasks.saves + tasks.resumes < MaxPending
        /\ settings' = [settings EXCEPT !.excludeOtherFromCount = value]
        /\ settings' # settings
        /\ data' = saveData(settings')
        /\ tasks' = [tasks EXCEPT !.saves = @ + 1]
        /\ UNCHANGED <<vault, viewVars, navVars, phase, fileVars, lagging>>

\* saveData has resolved: saveSettings calls refreshNovelChapterView(true), and
\* updateView(true) runs renderControls and waits at its await
SaveCompletes ==
    /\ tasks.saves > 0
    /\ tasks' = [tasks EXCEPT !.saves = @ - 1, !.resumes = @ + 1]
    /\ selectedNovelProjectId' =
           renderControlsSelection(settings.novelProjects, selectedNovelProjectId)
    /\ UNCHANGED <<vault, settings, filterValue, searchTerm, table, derivedFrom, data,
                   navVars, phase, fileVars, lagging>>

\* updateView(true) goes on after renderControls: the selection is settled and
\* the table is drawn
UpdateViewResumes ==
    /\ tasks.resumes > 0
    /\ tasks' = [tasks EXCEPT !.resumes = @ - 1]
    /\ UpdateView(getFileCache(vault, lagging), settings, FALSE)
    /\ UNCHANGED <<vault, settings, filterValue, searchTerm, data, navVars, phase, fileVars,
                   lagging>>

RefreshNext ==
    \/ CreateEvent
    \/ ModifyEvent
    \/ DeleteEvent
    \/ RenameEvent
    \/ CacheIndexed
    \/ TimerFires
    \/ ChangeSetting
    \/ SaveCompletes
    \/ UpdateViewResumes
    \/ SetSearchTerm
    \/ SetFilterValue

RefreshSpec == RefreshInit /\ [][RefreshNext]_vars

\* the paths of the chapter rows of the table container, in the order of the rows
RECURSIVE chapterRows(_)
chapterRows(groups) ==
    IF groups = <<>> THEN <<>>
    ELSE [i \in 1..Len(Head(groups).members) |-> Head(groups).members[i].path]
         \o chapterRows(Tail(groups))

\* C19: once the events have stopped, every suspended handler has run to its end
\* and the metadata cache is up to date (nothing goes on unless a further event
\* occurs), the chapters the panel shows are those of the derivation over the
\* documents as they are now, with the panel's current selection, filter and
\* search term: the same outcome, the same chapter rows in the same order, the
\* same count.
C19_EventuallyDerived ==
    LET DerivedNow == renderChapterTable(vault, settings, selectedNovelProjectId,
                                         filterValue, searchTerm)
    IN  (tasks = [timers |-> 0, saves |-> 0, resumes |-> 0] /\ lagging = {}) =>
            /\ table.outcome = DerivedNow.outcome
            /\ chapterRows(table.groups) = chapterRows(DerivedNow.groups)
            /\ table.totalCount = DerivedNow.totalCount

\* C20: whichever way the suspended refreshes, the events, the settings changes
\* and the search and filter changes interleave, the table container holds the
\* rows of exactly one derivation, the one over what the last render read, and
\* no chapter has two rows.
C20_OneDerivation ==
    /\ table = renderChapterTable(derivedFrom.files, derivedFrom.settings,
                                  derivedFrom.selectedId, derivedFrom.filterValue,
                                  derivedFrom.searchTerm)
    /\ \A i, j \in 1..Len(chapterRows(table.groups)) :
           i # j => chapterRows(table.groups)[i] # chapterRows(table.groups)[j]

\* C20 witness: a render has drawn two chapters from a vault changed by events
\* while a sleeping handleFileChange and a waiting updateView(true) are still
\* to refresh
C20_Witness ==
    /\ tasks.timers > 0
    /\ tasks.resumes > 0
    /\ Len(chapterRows(table.groups)) = 2
    /\ derivedFrom.settings.excludeOtherFromCount

(***************************************************************************)
(* The project rows of the settings tab.  Each row is drawn by             *)
(* renderNovelProjects with the index its project had in novelProjects at  *)
(* that time; its remove button splices at that index.  The handlers       *)
(* suspend at the await of saveSettings and draw the rows again afterwards.*)
(* The panel is not open, so that refreshNovelChapterView finds no view.   *)
(***************************************************************************)
\* the plugin has loaded three projects; the settings tab is not displayed yet
TabInit ==
    /\ vault = << TFile(MdPath(FolderNC, <<"c", "1">>), {<<"status", ToDo>>}) >>
    /\ settings = [DEFAULT_SETTINGS EXCEPT !.novelProjects =
                      <<NovelProject("p1", "My First Novel", FolderNC),
                        NovelProject("p2", "Second", <<"N", "/", "C", "2">>),
                        NovelProject("p3", "Part A", FolderNC \o <<"/", "A">>)>>]
    /\ data = settings
    /\ phase = "loaded"
    /\ selectedNovelProjectId = NoId
    /\ filterValue = All
    /\ searchTerm = <<>>
    /\ table = renderChapterTable(vault, settings, selectedNovelProjectId, filterValue, searchTerm)
    /\ derivedFrom = inputsRead(vault, settings, selectedNovelProjectId, filterValue, searchTerm)
    /\ Idle

\* renderNovelProjects: containerEl.empty(), then one row for each project of
\* novelProjects, in the order of the list; the row keeps the index of the project
renderNovelProjects(projects) == [index \in 1..Len(projects) |-> projects[index].id]

\* NovelChapterPluginSettingsTab.display: the rows are drawn from the current list
DisplayTab ==
    /\ settingsTab.rows # renderNovelProjects(settings.novelProjects)
    /\ settingsTab' = [settingsTab EXCEPT !.rows = renderNovelProjects(settings.novelProjects)]
    /\ UNCHANGED <<vault, settings, viewVars, data, navVars, phase, uncaught, fileOp, modal,
                   lagging, tasks>>

\* the remove button of a displayed row, up to the await of saveSettings:
\* novelProjects.splice(index, 1) with the index of the row, which removes
\* nothing when the list has become shorter than the index; saveData is called
ClickRemoveNovel ==
    \E index \in 1..Len(settingsTab.rows) :
        /\ tasks.saves < MaxPending
        /\ settings' = [settings EXCEPT !.novelProjects =
                           SubSeq(@, 1, index - 1) \o SubSeq(@, index + 1, Len(@))]
        /\ data' = saveData(settings')
        /\ settingsTab' =
               [settingsTab EXCEPT
                   !.clicked = settingsTab.rows[index],
                   !.removed = IF index <= Len(settings.novelProjects)
                               THEN <<settings.novelProjects[index].id>> ELSE <<>>]
        /\ tasks' = [tasks EXCEPT !.saves = @ + 1]
        /\ UNCHANGED <<vault, viewVars, navVars, phase, uncaught, fileOp, modal, lagging>>

\* "Add Novel", up to the await of saveSettings: a project with a new id is
\* pushed and saveData is called
ClickAddNovel ==
    \E id \in GeneratedNovelIds \ (IdsOf(settings.novelProjects) \cup Range(settingsTab.rows)) :
        /\ tasks.saves < MaxPending
        /\ Len(settings.novelProjects) < MaxProjects
        /\ settings' = [settings EXCEPT !.novelProjects =
                           Append(@, NovelProject(id, NewNovelName(Len(@) + 1), <<>>))]
        /\ data' = saveData(settings')
        /\ settingsTab' = [settingsTab EXCEPT !.clicked = NoId, !.removed = <<>>]
        /\ tasks' = [tasks EXCEPT !.saves = @ + 1]
        /\ UNCHANGED <<vault, viewVars, navVars, phase, uncaught, fileOp, modal, lagging>>

\* saveData has resolved: saveSettings returns (no panel to refresh) and the
\* handler that awaited it draws the rows again from the current list
RowsRedrawn ==
    /\ tasks.saves > 0
    /\ tasks' = [tasks EXCEPT !.saves = @ - 1]
    /\ settingsTab' = [settingsTab EXCEPT !.rows = renderNovelProjects(settings.novelProjects)]
    /\ UNCHANGED <<vault, settings, viewVars, data, navVars, phase, uncaught, fileOp, modal,
                   lagging>>

TabNext ==
    \/ DisplayTab
    \/ ClickRemoveNovel
    \/ ClickAddNovel
    \/ RowsRedrawn

TabSpec == TabInit /\ [][TabNext]_vars

\* C28: after a click on the remove button of a project row, whatever saves of
\* earlier add or remove clicks are still pending, the project the click took
\* out of the list and of the saved settings is the project of that row, and
\* no other project.
C28_RemovesClickedProject ==
    settingsTab.clicked # NoId =>
        /\ settingsTab.removed = <<settingsTab.clicked>>
        /\ settingsTab.clicked \notin IdsOf(data.novelProjects)

(***************************************************************************)
(* The group headers of the chapter table.  Every header and every chapter *)
(* row gets the id renderChapterTable computes from the group name; a      *)
(* click on a header shows or hides the rows that carry the header's id.   *)
(***************************************************************************)
\* `group-${groupName.replace(/[^a-zA-Z0-9]/g, "-")}`
groupId(groupName) ==
    <<"g", "r", "o", "u", "p", "-">>
    \o [i \in 1..Len(groupName) |->
           IF groupName[i] \in Range(LowerLetters) \cup Range(UpperLetters) \cup Range(Digits)
           THEN groupName[i] ELSE "-"]

\* chapters in folders whose names differ in a character that is no letter and
\* no digit, in a third folder, and in the project root
GroupCatalogue ==
    { TFile(MdPath(FolderNC \o <<"/", "A", " ", "1">>, <<"c", "1">>), {}),
      TFile(MdPath(FolderNC \o <<"/", "A", ".", "1">>, <<"c", "2">>), {}),
      TFile(MdPath(FolderNC \o <<"/", "A", "2">>, <<"c", "3">>), {}),
      TFile(MdPath(FolderNC, <<"c", "4">>), {}) }

\* the panel is open on the project N/C
GroupInit ==
    /\ vault \in { l \in SeqsUpTo(GroupCatalogue, MaxFiles) :
                     /\ Len(l) >= 2
                     /\ \A i, j \in 1..Len(l) : i # j => l[i].path # l[j].path }
    /\ settings = [DEFAULT_SETTINGS EXCEPT !.novelProjects =
                      <<NovelProject("p1", "My First Novel", FolderNC)>>]
    /\ data = settings
    /\ phase = "open"
    /\ selectedNovelProjectId = updateViewSelection(settings, NoId, TRUE)
    /\ filterValue = All
    /\ searchTerm = <<>>
    /\ table = renderChapterTable(vault, settings, selectedNovelProjectId, filterValue, searchTerm)
    /\ derivedFrom = inputsRead(vault, settings, selectedNovelProjectId, filterValue, searchTerm)
    /\ Idle

\* the chapter rows of the table: the group each was drawn for and its file
rowsOf(groups) ==
    UNION { { [group |-> groups[i].name, path |-> groups[i].members[k].path] :
                k \in 1..Len(groups[i].members) } : i \in 1..Len(groups) }

\* the click listener of a group header: classList.toggle("collapsed") on the
\* header, then display "none" or "" for every row of the table body matching
\* tr.chapter-data-row[data-group-id=groupId]
ClickGroupHeader ==
    \E i \in 1..Len(table.groups) :
        LET groupName == table.groups[i].name
            isCollapsed == groupName \notin table.collapsed
            matchingRows == { row \in rowsOf(table.groups) :
                                 groupId(row.group) = groupId(groupName) }
        IN  /\ phase = "open"
            /\ table' = [table EXCEPT
                            !.collapsed = IF isCollapsed THEN @ \cup {groupName}
                                          ELSE @ \ {groupName},
                            !.hidden = IF isCollapsed THEN @ \cup matchingRows
                                       ELSE @ \ matchingRows,
                            !.clicked = groupName]
            /\ UNCHANGED <<vault, settings, selectedNovelProjectId, filterValue, searchTerm,
                           derivedFrom, data, extVars>>

GroupNext ==
    \/ ClickGroupHeader
    \/ SetSearchTerm

GroupSpec == GroupInit /\ [][GroupNext]_vars

\* C30: a click on a group header changes the visibility of the chapter rows of
\* that group, which are hidden when the header is collapsed and shown when it
\* is not, and leaves the rows of every other group as they were, whatever the
\* group names are.
C30_TogglesOwnRows ==
    [][(table'.clicked # <<>> /\ table' # table) =>
          \A row \in rowsOf(table'.groups) :
              IF row.group = table'.clicked
              THEN row \in table'.hidden <=> row.group \in table'.collapsed
              ELSE row \in table'.hidden <=> row \in table.hidden]_vars

=============================================================================
